---- MODULE Spec2Model ----
(***************************************************************************)
(* Model of RedisManager (src/src/index.ts): a process-wide registry of    *)
(* named ioredis clients, the forwarding proxy for the `default` client,   *)
(* and the shutdown sequence with its signal hooks.                        *)
(*                                                                         *)
(* JavaScript runs every handler to its first `await` without              *)
(* interleaving; the continuation after an `await` is a separate step.     *)
(* Each action below is one such run-to-completion step.                   *)
(***************************************************************************)
EXTENDS Integers, Sequences, FiniteSets, Bags, TLC

\* ---------------------------------------------------------------- bounds
MaxHandles == 2      \* clients constructed over the life of the process
MaxShutdowns == 2    \* shutdown() calls that reach the await
MaxHooks == 1        \* registerShutdownHooks() calls that install handlers

\* ------------------------------------------------------------ vocabulary
NoHandle == 0
Handles == 1..MaxHandles

ConfigNames == {"default", "cache"}
Keys == ConfigNames \cup {"nonexistent"}

\* Object.keys(config) in insertion order; every config carries `default`.
Configs == {<<"default">>, <<"default", "cache">>}

\* Properties a RedisClient exposes (`prop in client`).  `connection` is the
\* member ExtendedRedisClient adds on top of RedisClient, so the client
\* itself does not have it.
ClientProps == {"get"}
Props == ClientProps \cup {"bogus", "connection"}

Signals == {"SIGINT", "SIGTERM"}

VARIABLES
    instances,     \* Map<string, RedisClient>: key -> handle id, NoHandle = absent
    initialized,   \* the static flag
    nextHandle,    \* number of clients constructed so far
    hName,         \* handle -> the key its `end` listener closed over
    hEnded,        \* handles whose `end` event has been delivered
    quitCount,     \* handle -> number of quit() calls made on it
    shutdowns,     \* bag of the shutdown() calls suspended at `await Promise.all`
    shutdownCount, \* number of shutdown() calls that went past the initialized test
    hooks,         \* number of (SIGINT, SIGTERM) handler pairs installed
    hasProxy,      \* some init() has returned a proxy to the caller
    proc,          \* "running", "exit0" (process.exit(0)) or "crashed"
    reinitConfig,  \* where init() calls are tracked: the config of a forced init
                   \* of an initialized registry, kept until the next init() or
                   \* signal-triggered shutdown(); <<>> otherwise
    lastOp         \* the step just taken, its arguments and its result

vars == <<instances, initialized, nextHandle, hName, hEnded, quitCount,
          shutdowns, shutdownCount, hooks, hasProxy, proc, reinitConfig, lastOp>>

Created == 1..nextHandle
Live == Created \ hEnded
Registered == {instances[k] : k \in Keys} \ {NoHandle}
RegisteredNames == {k \in Keys : instances[k] # NoHandle}

NoResult == [kind |-> "none", h |-> NoHandle]

\* lastOp: preInit and preNext are the flag and the construction counter as an
\* init() call found them.
Op(name, force, cfg, arg, res) ==
    [op |-> name, force |-> force, cfg |-> cfg, arg |-> arg, res |-> res,
     preInit |-> FALSE, preNext |-> 0]

InitOp(force, cfg) ==
    [op |-> "init", force |-> force, cfg |-> cfg, arg |-> "", res |-> NoResult,
     preInit |-> initialized, preNext |-> nextHandle]

Range(s) == {s[i] : i \in 1..Len(s)}

\* ------------------------------------------------------- createInstance
\* reg = [inst, next, name]: the registry, the construction counter and the
\* keys captured by the listeners.
\* (variant: the `instances.has(key)` test is missing)
createInstanceAlways(reg, key) ==
    [inst |-> [reg.inst EXCEPT ![key] = reg.next + 1],
     next |-> reg.next + 1,
     name |-> [h \in Handles |-> IF h = reg.next + 1 THEN key ELSE reg.name[h]]]

createInstance(reg, key) ==
    IF reg.inst[key] # NoHandle
    THEN reg
    ELSE [inst |-> [reg.inst EXCEPT ![key] = reg.next + 1],
          next |-> reg.next + 1,
          name |-> [h \in Handles |-> IF h = reg.next + 1 THEN key ELSE reg.name[h]]]

\* (variant: only the first key of the config is created)
createAllFirstOnly(reg, keys) ==
    IF keys = <<>> THEN reg ELSE createInstance(reg, Head(keys))

\* for (const key of Object.keys(config)) this.createInstance(key, config[key])
RECURSIVE createAll(_, _)
createAll(reg, keys) ==
    IF keys = <<>> THEN reg
    ELSE createAll(createInstance(reg, Head(keys)), Tail(keys))

\* ------------------------------------------------------------- shutdown
\* The synchronous part of shutdown(): return at once when not initialized,
\* otherwise call quit() on every registered client and suspend on
\* Promise.all of the returned promises.  Promise.all needs of its inputs
\* only which are still pending and whether one has rejected.
quitTargets == Registered

\* (variant: the `if (!this.initialized) return` line is missing)
shutdownCallNoGuard(sd, caller) ==
    sd (+) SetToBag({[caller |-> caller, pending |-> quitTargets,
                      rejected |-> FALSE]})

shutdownCall(sd, caller) ==
    IF ~initialized THEN sd
    ELSE sd (+) SetToBag({[caller |-> caller, pending |-> quitTargets,
                           rejected |-> FALSE]})

RECURSIVE shutdownCalls(_, _, _)
shutdownCalls(sd, caller, n) ==
    IF n = 0 THEN sd ELSE shutdownCalls(shutdownCall(sd, caller), caller, n - 1)

quitCalls(n) ==
    [h \in Handles |-> IF initialized /\ h \in quitTargets
                       THEN quitCount[h] + n ELSE quitCount[h]]

\* ----------------------------------------------------------------- init
\* (variant: the early return is missing)
initReturnsEarlyNever(force) == FALSE

initReturnsEarly(force) == initialized /\ ~force

\* track: whether the call is noted in reinitConfig
initCall(config, force, track) ==
    /\ proc = "running"
    /\ IF initReturnsEarly(force)
       THEN UNCHANGED <<instances, initialized, nextHandle, hName, quitCount,
                        shutdowns, shutdownCount>>
       ELSE LET sd == IF force THEN shutdownCall(shutdowns, "init") ELSE shutdowns
                qc == IF force THEN quitCalls(1) ELSE quitCount
                reg == createAll([inst |-> instances, next |-> nextHandle,
                                  name |-> hName], config)
                sc == shutdownCount + BagCardinality(sd) - BagCardinality(shutdowns)
            IN /\ sc <= MaxShutdowns
               /\ reg.next <= MaxHandles
               /\ shutdowns' = sd
               /\ shutdownCount' = sc
               /\ quitCount' = qc
               /\ instances' = reg.inst
               /\ nextHandle' = reg.next
               /\ hName' = reg.name
               /\ initialized' = TRUE
    /\ hasProxy' = TRUE
    /\ reinitConfig' = IF track /\ force /\ initialized THEN config ELSE <<>>
    /\ lastOp' = InitOp(force, config)
    /\ UNCHANGED <<hEnded, hooks, proc>>

init(config, force) == initCall(config, force, FALSE)

initTracked(config, force) == initCall(config, force, TRUE)

\* ------------------------------------------------- connection / the proxy
connection(key) ==
    IF instances[key] = NoHandle
    THEN [kind |-> "NotFound", h |-> NoHandle]
    ELSE [kind |-> "handle", h |-> instances[key]]

\* (variant: the `prop in client` test is missing)
proxyGetNoCheck(prop) ==
    LET client == connection("default")
    IN IF client.kind = "NotFound" THEN client
       ELSE [kind |-> "forward", h |-> client.h]

\* The proxy's get trap: every property read, `connection` included, goes
\* through it; the target object is never consulted.
proxyGet(prop) ==
    LET client == connection("default")
    IN IF client.kind = "NotFound" THEN client
       ELSE IF prop \in ClientProps
            THEN [kind |-> "forward", h |-> client.h]
            ELSE [kind |-> "Unsupported", h |-> NoHandle]

\* proxy.<prop> for an operation of the client
ProxyOperation(prop) ==
    /\ proc = "running"
    /\ hasProxy
    /\ lastOp' = Op("proxyGet", FALSE, <<>>, prop, proxyGet(prop))
    /\ UNCHANGED <<instances, initialized, nextHandle, hName, hEnded, quitCount,
                   shutdowns, shutdownCount, hooks, hasProxy, proc, reinitConfig>>

\* proxy.connection(key): the read of `connection` is answered by the get trap
ProxyConnection(key) ==
    /\ proc = "running"
    /\ hasProxy
    /\ lastOp' = Op("proxyConnection", FALSE, <<>>, key, proxyGet("connection"))
    /\ UNCHANGED <<instances, initialized, nextHandle, hName, hEnded, quitCount,
                   shutdowns, shutdownCount, hooks, hasProxy, proc, reinitConfig>>

\* ------------------------------------------------------ transport events
\* client.on('end', () => this.instances.delete(key))
endDelete(h) == [instances EXCEPT ![hName[h]] = NoHandle]

EndEvent(h) ==
    /\ proc = "running"
    /\ h \in Live
    /\ hEnded' = hEnded \cup {h}
    /\ instances' = endDelete(h)
    /\ lastOp' = Op("end", FALSE, <<>>, hName[h], [kind |-> "event", h |-> h])
    /\ UNCHANGED <<initialized, nextHandle, hName, quitCount, shutdowns,
                   shutdownCount, hooks, hasProxy, proc, reinitConfig>>

\* The other listeners createInstance attaches only write to the console.
TransportEvents == {"connect", "ready", "error", "close", "reconnecting"}

\* (variant: the 'close' listener deletes the entry as the 'end' listener does)
onEventCloseDeletes(ev, h) ==
    IF ev \in {"end", "close"} THEN endDelete(h) ELSE instances

\* The registry after the listener of client h for event ev has run.
onEvent(ev, h) ==
    IF ev = "end" THEN endDelete(h) ELSE instances

TransportEvent(h, ev) ==
    /\ proc = "running"
    /\ h \in Live
    /\ ev \in TransportEvents
    /\ instances' = onEvent(ev, h)
    /\ lastOp' = Op("event", FALSE, <<>>, ev, NoResult)
    /\ UNCHANGED <<initialized, nextHandle, hName, hEnded, quitCount, shutdowns,
                   shutdownCount, hooks, hasProxy, proc, reinitConfig>>

\* Once Promise.all has settled nothing observes the promises any more, so a
\* shutdown() call that has resumed or thrown leaves the bag.
dropCall(s) == shutdowns (-) SetToBag({s})

\* A quit() promise awaited by the suspended shutdown call s settles.
QuitSettle(s, h, ok) ==
    /\ proc = "running"
    /\ BagIn(s, shutdowns)
    /\ h \in s.pending
    /\ shutdowns' = dropCall(s) (+) SetToBag({[s EXCEPT !.pending = @ \ {h},
                                                       !.rejected = @ \/ ~ok]})
    /\ lastOp' = Op("quitSettle", FALSE, <<>>, "", NoResult)
    /\ UNCHANGED <<instances, initialized, nextHandle, hName, hEnded, quitCount,
                   shutdownCount, hooks, hasProxy, proc, reinitConfig>>

\* (variant: Promise.race in place of Promise.all)
allResolvedFirst(s) == ~s.rejected

\* Promise.all
allResolved(s) == s.pending = {} /\ ~s.rejected
someRejected(s) == s.rejected

\* The continuation of shutdown() after the await: clear, reset the flag;
\* a signal handler then goes on to process.exit(0).
ShutdownResume(s) ==
    /\ proc = "running"
    /\ BagIn(s, shutdowns)
    /\ allResolved(s)
    /\ instances' = [k \in Keys |-> NoHandle]
    /\ initialized' = FALSE
    /\ shutdowns' = dropCall(s)
    /\ proc' = IF s.caller = "signal" THEN "exit0" ELSE "running"
    /\ lastOp' = Op("shutdownResume", FALSE, <<>>, s.caller,
                    [kind |-> "resolved", h |-> NoHandle])
    /\ UNCHANGED <<nextHandle, hName, hEnded, quitCount, shutdownCount, hooks, hasProxy,
                   reinitConfig>>

\* Promise.all rejects with the first rejection: the await throws, the rest
\* of shutdown() (and of a signal handler) is skipped, and nobody handles the
\* rejection.  Whether the runtime then ends the process depends on its
\* unhandled-rejection mode.
ShutdownReject(s, crash) ==
    /\ proc = "running"
    /\ BagIn(s, shutdowns)
    /\ someRejected(s)
    /\ shutdowns' = dropCall(s)
    /\ proc' = IF crash THEN "crashed" ELSE "running"
    /\ lastOp' = Op("shutdownReject", FALSE, <<>>, s.caller,
                    [kind |-> "rejected", h |-> NoHandle])
    /\ UNCHANGED <<instances, initialized, nextHandle, hName, hEnded, quitCount,
                   shutdownCount, hooks, hasProxy, reinitConfig>>

\* ------------------------------------------------------ shutdown hooks
registerShutdownHooks ==
    /\ proc = "running"
    /\ IF initialized
       THEN /\ hooks < MaxHooks
            /\ hooks' = hooks + 1
       ELSE UNCHANGED hooks
    /\ lastOp' = Op("registerShutdownHooks", FALSE, <<>>, "", NoResult)
    /\ UNCHANGED <<instances, initialized, nextHandle, hName, hEnded, quitCount,
                   shutdowns, shutdownCount, hasProxy, proc, reinitConfig>>

\* A signal is delivered: every installed handler for it runs up to its
\* `await RedisManager.shutdown()`.  When the registry is not initialized
\* shutdown() returns at once and the handler goes on to process.exit(0).
Signal(sig) ==
    /\ proc = "running"
    /\ hooks > 0
    /\ sig \in Signals
    /\ shutdownCount + (IF initialized THEN hooks ELSE 0) <= MaxShutdowns
    /\ shutdowns' = shutdownCalls(shutdowns, "signal", hooks)
    /\ shutdownCount' = shutdownCount + (IF initialized THEN hooks ELSE 0)
    /\ quitCount' = quitCalls(hooks)
    /\ proc' = IF initialized THEN "running" ELSE "exit0"
    /\ reinitConfig' = <<>>
    /\ lastOp' = Op("signal", FALSE, <<>>, sig, NoResult)
    /\ UNCHANGED <<instances, initialized, nextHandle, hName, hEnded, hooks, hasProxy>>

\* -------------------------------------------------------- specification
Init ==
    /\ instances = [k \in Keys |-> NoHandle]
    /\ initialized = FALSE
    /\ nextHandle = 0
    /\ hName = [h \in Handles |-> "nonexistent"]
    /\ hEnded = {}
    /\ quitCount = [h \in Handles |-> 0]
    /\ shutdowns = EmptyBag
    /\ shutdownCount = 0
    /\ hooks = 0
    /\ hasProxy = FALSE
    /\ proc = "running"
    /\ reinitConfig = <<>>
    /\ lastOp = Op("start", FALSE, <<>>, "", NoResult)

\* The callbacks, the hooks and the signals.
NextCallbacks ==
    \/ \E h \in Handles : EndEvent(h)
    \/ \E s \in BagToSet(shutdowns), h \in Handles, ok \in BOOLEAN : QuitSettle(s, h, ok)
    \/ \E s \in BagToSet(shutdowns) : ShutdownResume(s)
    \/ \E s \in BagToSet(shutdowns), crash \in BOOLEAN : ShutdownReject(s, crash)
    \/ registerShutdownHooks
    \/ \E sig \in Signals : Signal(sig)

\* The calls and callbacks that act on the registry.
NextLifecycle ==
    \/ \E config \in Configs, force \in BOOLEAN : init(config, force)
    \/ NextCallbacks

\* ... and the reads through the proxy, which leave the registry alone.
Next ==
    \/ NextLifecycle
    \/ \E prop \in Props \ {"connection"} : ProxyOperation(prop)
    \/ \E key \in Keys : ProxyConnection(key)

Spec == Init /\ [][Next]_vars

\* The same program without the proxy reads: they change no variable but
\* lastOp, so the registry passes through the same states.
SpecLifecycle == Init /\ [][NextLifecycle]_vars

\* SpecLifecycle with the clients' other events.
NextEvents ==
    \/ NextLifecycle
    \/ \E h \in Handles, ev \in TransportEvents : TransportEvent(h, ev)

SpecEvents == Init /\ [][NextEvents]_vars

\* SpecLifecycle with the forced re-inits noted in reinitConfig.
NextReinit ==
    \/ \E config \in Configs, force \in BOOLEAN : initTracked(config, force)
    \/ NextCallbacks

SpecReinit == Init /\ [][NextReinit]_vars

TypeOK ==
    /\ instances \in [Keys -> 0..MaxHandles]
    /\ initialized \in BOOLEAN
    /\ nextHandle \in 0..MaxHandles
    /\ hEnded \subseteq Created
    /\ BagCardinality(shutdowns) <= shutdownCount
    /\ shutdownCount \in 0..MaxShutdowns
    /\ hooks \in 0..MaxHooks
    /\ proc \in {"running", "exit0", "crashed"}

\* ================================================================ claims

\* C1: when init(config, force=true) is called on an initialized registry,
\* the shutdown it triggers has completed before any createInstance, so every
\* handle in the registry when init returns was constructed by that call.
C1_ForcedInitOnlyNewHandles ==
    (lastOp.op = "init" /\ lastOp.force /\ lastOp.preInit)
        => \A k \in Keys : instances[k] # NoHandle => instances[k] > lastOp.preNext

\* C2: there are never two live handles (constructed and not yet ended) for
\* the same name.
C2_NoTwoLiveHandlesPerName ==
    \A g, h \in Live : hName[g] = hName[h] => g = h

\* C3: an operation invoked on the proxy after a forced re-init of an
\* initialized registry is forwarded to a default handle constructed by that
\* re-init, never to a handle from before it.
C3_ProxyForwardsToNewDefault ==
    [][(/\ lastOp.op = "init" /\ lastOp.force /\ lastOp.preInit
        /\ lastOp'.op = "proxyGet" /\ lastOp'.arg \in ClientProps)
       => (lastOp'.res.kind = "forward" /\ lastOp'.res.h > lastOp.preNext)]_vars

\* C4: a shutdown() call that has run to its end, by resuming after the await
\* or by the await throwing because a close failed, leaves the registry empty
\* and initialized false.
C4_ShutdownAlwaysClears ==
    lastOp.op \in {"shutdownResume", "shutdownReject"}
        => (RegisteredNames = {} /\ ~initialized)

\* C5: init(config, force=false) on an initialized registry constructs no
\* handle, requests no close and leaves the registry and the flag unchanged.
C5_InitIdempotent ==
    [][(lastOp'.op = "init" /\ ~lastOp'.force /\ initialized)
       => (/\ instances' = instances
           /\ initialized' = initialized
           /\ nextHandle' = nextHandle
           /\ hName' = hName
           /\ quitCount' = quitCount
           /\ shutdowns' = shutdowns
           /\ shutdownCount' = shutdownCount)]_vars

C5_Witness ==
    /\ lastOp.op = "init" /\ ~lastOp.force /\ lastOp.preInit
    /\ lastOp.cfg = <<"default", "cache">>
    /\ instances["cache"] = NoHandle

\* C6: when init(configSet) returns from a call made on a registry that was
\* not initialized, the registered names are exactly the keys of configSet,
\* each name has its own handle, and initialized is true.
C6_InitPopulatesExactlyConfig ==
    (lastOp.op = "init" /\ ~lastOp.preInit)
        => /\ RegisteredNames = Range(lastOp.cfg)
           /\ initialized
           /\ \A k \in RegisteredNames :
                 /\ instances[k] \in Live
                 /\ hName[instances[k]] = k

C6_Witness ==
    /\ lastOp.op = "init" /\ ~lastOp.preInit /\ lastOp.preNext > 0
    /\ RegisteredNames = {"default"}

\* C7: createInstance for a name that already has a registered handle returns
\* that handle, constructs nothing and leaves the entry as it is: an init
\* that runs its loop constructs one handle per key that was absent and none
\* for a key that was present.
C7_CreateInstanceIdempotent ==
    [][(lastOp'.op = "init" /\ ~(initialized /\ ~lastOp'.force))
       => (/\ \A k \in Range(lastOp'.cfg) :
                 instances[k] # NoHandle => instances'[k] = instances[k]
           /\ nextHandle' = nextHandle
                 + Cardinality({k \in Range(lastOp'.cfg) : instances[k] = NoHandle}))]_vars

C7_Witness ==
    /\ lastOp.op = "init" /\ lastOp.force /\ lastOp.preInit
    /\ instances["default"] # NoHandle
    /\ instances["default"] <= lastOp.preNext

\* C8: connection(n) on the proxy, for a name n that has a registered handle,
\* returns the handle registered under n.
C8_ProxyConnectionReturnsHandle ==
    (lastOp.op = "proxyConnection" /\ instances[lastOp.arg] # NoHandle)
        => lastOp.res = [kind |-> "handle", h |-> instances[lastOp.arg]]

\* C9: connection(name) for a name without a registered handle fails with
\* NotFound, never with another error and never with a handle.
C9_UnknownNameIsNotFound ==
    (lastOp.op = "proxyConnection" /\ instances[lastOp.arg] = NoHandle)
        => lastOp.res.kind = "NotFound"

\* C10: an operation requested on the proxy fails with NotFound when no
\* handle is registered under `default`, with UnsupportedOperation when the
\* default handle does not expose it, and changes neither registry nor flag.
C10_ProxyErrors ==
    [][(lastOp'.op \in {"proxyGet", "proxyConnection"})
       => LET prop == IF lastOp'.op = "proxyGet" THEN lastOp'.arg ELSE "connection"
          IN /\ instances["default"] = NoHandle => lastOp'.res.kind = "NotFound"
             /\ (instances["default"] # NoHandle /\ prop \notin ClientProps)
                   => lastOp'.res.kind = "Unsupported"
             /\ instances' = instances
             /\ initialized' = initialized]_vars

C10_Witness ==
    /\ lastOp.op = "proxyGet"
    /\ lastOp.res.kind = "Unsupported"
    /\ initialized

\* C11: a shutdown clears the registry and resets the flag only when every
\* close it requested has settled: the call that resumes has no close pending.
C11_ClearOnlyAfterAllSettled ==
    [][(lastOp'.op = "shutdownResume")
       => /\ instances' = [k \in Keys |-> NoHandle]
          /\ ~initialized'
          /\ \A s \in BagToSet(shutdowns) :
                CopiesIn(s, shutdowns') < CopiesIn(s, shutdowns) => s.pending = {}]_vars

C11_Witness ==
    /\ lastOp.op = "shutdownResume"
    /\ \E g, h \in Created : g # h /\ quitCount[g] > 0 /\ quitCount[h] > 0

\* C12: once hooks are registered, a signal handler whose shutdown() call has
\* come to its end, also by a close failing, has ended the process with
\* status 0.
C12_SignalEndsInExit0 ==
    (lastOp.op \in {"shutdownResume", "shutdownReject"} /\ lastOp.arg = "signal")
        => proc = "exit0"

\* C13: shutdown() called while initialized is false requests no close and
\* changes neither the registry nor the flag.
C13_ShutdownNoOpWhenNotInitialized ==
    [][(/\ ~initialized
        /\ \/ lastOp'.op = "signal"
           \/ lastOp'.op = "init" /\ lastOp'.force)
       => /\ quitCount' = quitCount
          /\ shutdowns' = shutdowns
          /\ shutdownCount' = shutdownCount
          /\ lastOp'.op = "signal" => (instances' = instances /\ initialized' = initialized)]_vars

C13_Witness ==
    /\ lastOp.op = "signal"
    /\ proc = "exit0"
    /\ ~initialized

\* The clients constructed for `default`; the newest of them is the one an
\* entry for `default` holds, or held last.
DefaultHandles == {h \in Created : hName[h] = "default"}
LastDefaultEnded == \E h \in DefaultHandles \cap hEnded : \A g \in DefaultHandles : g <= h

\* C14: while the handle last registered under `default` has had no end
\* event, initialized implies that `default` is registered.
C14_InitializedHasDefault ==
    (initialized /\ ~LastDefaultEnded) => instances["default"] # NoHandle

\* C15: a name is registered exactly while a handle constructed for it is not
\* torn down: no ended handle is registered, and every constructed handle
\* that has neither ended nor been asked to close is registered.
C15_RegisteredIffNotTornDown ==
    /\ \A h \in Registered : h \notin hEnded
    /\ \A h \in Created :
          (h \notin hEnded /\ quitCount[h] = 0) => instances[hName[h]] = h

\* C18: the end event of a handle never removes another handle's entry.
C18_EndRemovesOnlyItsOwnHandle ==
    [][(lastOp'.op = "end")
       => \A k \in Keys :
             (instances[k] # NoHandle /\ instances[k] # lastOp'.res.h)
                => instances'[k] = instances[k]]_vars

\* C19: every handle a shutdown's clear removes from the registry has had a
\* close requested on it.
C19_ClearedHandlesWereAskedToClose ==
    [][(lastOp'.op = "shutdownResume")
       => \A h \in Registered : quitCount[h] > 0]_vars

\* C20: a close is requested at most once on any handle.
C20_QuitAtMostOnce ==
    \A h \in Handles : quitCount[h] <= 1

\* C16: after a forced init of an initialized registry has returned, with no
\* init or shutdown call since, once every suspended shutdown has come to its
\* end and every handle asked to close has ended, initialized is true and
\* every name of the config is registered.
C16_ReinitLeavesRegistry ==
    (/\ reinitConfig # <<>>
     /\ shutdowns = EmptyBag
     /\ \A h \in Created : quitCount[h] > 0 => h \in hEnded)
        => (initialized /\ \A k \in Range(reinitConfig) : instances[k] # NoHandle)

\* C17: of a client's events only `end` changes the registry, removing the
\* entry of that client's name; connect, ready, error, close and reconnecting
\* leave the registry alone, and no event changes the initialized flag.
C17_OnlyEndChangesRegistry ==
    [][/\ (lastOp'.op = "event")
            => (instances' = instances /\ initialized' = initialized)
       /\ (lastOp'.op = "end")
            => /\ lastOp'.arg = hName[lastOp'.res.h]
               /\ instances' = [instances EXCEPT ![lastOp'.arg] = NoHandle]
               /\ initialized' = initialized]_vars

C17_Witness ==
    /\ lastOp.op = "event"
    /\ lastOp.arg = "close"
    /\ initialized
    /\ instances["default"] # NoHandle
    /\ quitCount[instances["default"]] > 0


====
